---- MODULE Spec2Model ----
(***************************************************************************)
(* Deployment workflows of the bookshop repository.                        *)
(*                                                                         *)
(* The repository holds three generations of the deploy-frontend /         *)
(* deploy-backend GitHub Actions workflows:                                *)
(*   "asg"    WORKFLOW-DOCUMENTATION.md  (Auto Scaling Group fleet)        *)
(*   "guide"  CICD-SETUP-GUIDE.md        (one instance, backup, rollback)  *)
(*   "design" the design document        (one instance, backup, rollback)  *)
(* A behaviour fixes one workflow file (cfg) and runs triggers against it. *)
(***************************************************************************)
EXTENDS Integers, Sequences, FiniteSets, TLC

\* ---------------------------------------------------------------- bounds
MaxRuns == 2
MaxTargets == 2
MaxScaleEvents == 1
MaxContent == 2
MaxInvocations == 2
MaxRequests == 2
MaxBooks == 2

\* ------------------------------------------------------ program constants
FrontendAsgAttempts == 20
BackendAsgAttempts == 30
FrontendGuideAttempts == 30
BackendGuideAttempts == 60
BackendDesignAttempts == 30

RunIds == 1..MaxRuns
Targets == 1..MaxTargets
\* secrets.FRONTEND_INSTANCE_ID / secrets.BACKEND_INSTANCE_ID
Instance == 1

Workflows == {"asg", "guide", "design"}
Tiers == {"frontend", "backend"}
Events == {"ci_success", "ci_failure", "dispatch"}

\* Live state of a target: 0 = no deployment directory, v > 0 = artifact of
\* version v, Broken = web root / app directory left half overwritten.
Broken == 0 - 1

VARIABLES
  cfg,         \* [wf, tier]: the workflow file the repository carries
  runs,        \* run id -> DeploymentRun record
  nextId,      \* number of triggers received so far
  s3,          \* [versions, latest]: the deployment bucket prefix of the tier
  lifecycle,   \* target -> "InService" | "Pending" | "Terminated"
  live,        \* target -> live state
  backups,     \* target -> sequence of snapshots, newest first
  scaleEvents, \* out-of-band scale events so far
  store,       \* the objects under the tier's S3 keys, file by file
  manual,      \* the run of the Manual Rollback workflow
  conn,        \* the "Setup SSH with retry" step
  host,        \* a backend instance: its app directories, file by file
  lam,         \* the RDS failover Lambda, its invocations and the replica
  api          \* the backend API process, its requests and the books table

\* The state of the deploy workflows, and the state of what stands beside them.
deployVars == <<cfg, runs, nextId, s3, lifecycle, live, backups, scaleEvents, store>>
aux == <<manual, conn, host, lam, api>>

vars == <<cfg, runs, nextId, s3, lifecycle, live, backups, scaleEvents, store,
          manual, conn, host, lam, api>>

Min(S) == CHOOSE x \in S : \A y \in S : x <= y

NoRun ==
  [status |-> "none", event |-> "none", tests |-> "none",
   pc |-> "none", job |-> "success",
   version |-> 0, resolved |-> FALSE, ids |-> {}, count |-> 0,
   cmd |-> [t \in Targets |-> "None"], i |-> 0,
   backup |-> [t \in Targets |-> "none"], dispatched |-> {},
   sawBad |-> FALSE, exhausted |-> FALSE, allSucceeded |-> FALSE, failedStage |-> "none",
   restoreSent |-> {}, restore |-> "none",
   preRun |-> [t \in Targets |-> 0], latestBefore |-> 0,
   probe |-> "none", probeTarget |-> 0,
   summary |-> FALSE, rollbackReported |-> FALSE, verdict |-> "none"]

\* ------------------------------------------------------- workflow layout
StepsOf(wf) ==
  IF wf = "asg"
  THEN <<"prepare", "publish", "resolve", "deploy", "health", "summary">>
  ELSE <<"prepare", "publish", "backup", "deploy", "health", "summary", "rollback">>

\* The steps' conditions of a workflow without the INSTANCE_COUNT guards.
RunnableUnguarded(wf, step, r) ==
  CASE step = "rollback" -> r.job = "failure"
    [] OTHER -> r.job = "success"

\* The `if:` of a step.  A step without a status function gets success().
Runnable(wf, step, r) ==
  CASE step = "rollback" -> r.job = "failure"
    [] wf = "asg" /\ step \in {"deploy", "health"} ->
         r.job = "success" /\ r.count # 0
    [] OTHER -> r.job = "success"

Pos(seq, s) == CHOOSE k \in 1..Len(seq) : seq[k] = s

\* A layout in which a failed health step sends the job back to the deploy step.
NextPcRedeploying(wf, r, cur) ==
  LET seq == StepsOf(wf)
      later == {j \in (Pos(seq, cur) + 1)..Len(seq) : Runnable(wf, seq[j], r)}
  IN IF cur = "health" /\ r.job = "failure" THEN "deploy"
     ELSE IF later = {} THEN "done" ELSE seq[Min(later)]

\* The runner takes the steps of a job in file order, each at most once.
NextPc(wf, r, cur) ==
  LET seq == StepsOf(wf)
      later == {j \in (Pos(seq, cur) + 1)..Len(seq) : Runnable(wf, seq[j], r)}
  IN IF later = {} THEN "done" ELSE seq[Min(later)]

\* A step that ends with a non-zero exit code (bash -e).
Fail(r, stage) ==
  [r EXCEPT !.job = "failure",
            !.failedStage = IF @ = "none" THEN stage ELSE @]

Advance(r, cur) == [r EXCEPT !.pc = NextPc(cfg.wf, r, cur)]

\* jobs.deploy.if
Gate(e) == e = "ci_success" \/ e = "dispatch"

\* A group key that differs from run to run (as with github.run_id in it).
GroupPerRun(id) == <<"deploy", cfg.tier, id>>
\* concurrency.group
ConcurrencyGroup(id) == <<"deploy", cfg.tier>>
\* The setting of the CI pipeline's group (cancel-in-progress: true).
CancelInProgressOn == TRUE
\* concurrency.cancel-in-progress
CancelInProgress == FALSE

\* What the run reports when its job ends.
Verdict(r) ==
  IF r.job = "success" THEN "success"
  ELSE IF r.rollbackReported THEN "rolled_back"
  ELSE "failed"

\* ci.yml, job frontend-ci: is the "Run tests" step continue-on-error?
TestsContinueOnError == cfg.wf = "guide"

\* Conclusion of the CI Pipeline run, from the outcome of the test step
\* ("none": the tier's job has no test step) and of its other steps.
CiConclusion(tests, rest) ==
  IF ~rest \/ (tests = "failed" /\ ~TestsContinueOnError)
  THEN "ci_failure" ELSE "ci_success"

CiTests == IF cfg.tier = "frontend" THEN {"passed", "failed"} ELSE {"none"}

\* The test outcomes of the upstream runs that deliver event e.
TestsBehind(e) ==
  IF e = "dispatch" THEN {"none"}
  ELSE {ts \in CiTests : \E rest \in BOOLEAN : CiConclusion(ts, rest) = e}

\* A run leaves the queue and its job is evaluated.
Start(e, ts) ==
  IF Gate(e)
  THEN [NoRun EXCEPT !.status = "running", !.event = e, !.tests = ts,
                     !.pc = "prepare",
                     !.preRun = live, !.latestBefore = s3.latest]
  ELSE [NoRun EXCEPT !.status = "skipped", !.event = e]

\* --------------------------------------- the S3 keys, object by object
\* A build is a set of named files (frontend: ./build; backend: the one zip).
FileNames ==
  IF cfg.tier = "frontend" THEN {"index.html", "main.js"} ELSE {"backend.zip"}
Contents == 1..MaxContent
NoFiles == [n \in {} |-> 0]
Builds ==
  UNION {[names -> Contents] : names \in (SUBSET FileNames) \ {{}}}

Restrict(files, names) == [n \in names |-> files[n]]

\* aws s3 sync src dst (no --delete) / aws s3 cp of one object: every source
\* object is written over the destination's, no destination object is removed.
S3Sync(src, dst) ==
  [n \in DOMAIN src \cup DOMAIN dst |-> IF n \in DOMAIN src THEN src[n] ELSE dst[n]]

\* The objects a transfer that ends in an error may already have written:
\* any proper part of a sync's files, nothing of a single-object cp.
WrittenBeforeError(build) ==
  IF cfg.tier = "frontend" THEN (SUBSET DOMAIN build) \ {DOMAIN build} ELSE {{}}

NoStore ==
  [latest |-> NoFiles, version |-> NoFiles, build |-> NoFiles,
   before |-> NoFiles, outcome |-> "none", fetched |-> NoFiles, didFetch |-> FALSE]

\* rollback.yml before any workflow_dispatch.
NoManual ==
  [status |-> "idle", target |-> "none", confirm |-> "",
   hasBackup |-> [tier \in Tiers |-> FALSE],
   validate |-> "none", job |-> [tier \in Tiers |-> "none"]]

\* A directory that does not exist.
NoDir == [exists |-> FALSE, files |-> NoFiles]

\* A backend instance before its first deployment, and no package uploaded.
NoHost ==
  [pkg |-> NoDir, zip |-> NoDir, app |-> NoDir, appNew |-> NoDir, appOld |-> NoDir,
   pc |-> "idle", envBefore |-> 0, last |-> "none"]

\* The failover function before it is deployed; the replica replicates.
NoLambda ==
  [variant |-> "none",
   replica |-> [status |-> "available", source |-> TRUE, multiAZ |-> FALSE],
   inv |-> [k \in 1..MaxInvocations |-> [pc |-> "none", event |-> "none"]],
   calls |-> {}, dns |-> FALSE, sent |-> {}]

\* A request slot with no request in it.
NoRequest ==
  [method |-> "none", id |-> 0, phase |-> "none", err |-> FALSE,
   data |-> <<>>, sent |-> <<>>, afterError |-> FALSE]

\* The API process after app.listen, with an empty books table.
NoApi ==
  [alive |-> TRUE, db |-> "up", books |-> {}, errors |-> FALSE,
   req |-> [k \in 1..MaxRequests |-> NoRequest]]

\* The retry step before it starts: RETRY_COUNT=0, no ssh-keyscan made yet.
NoConn == [state |-> "idle", RETRY_COUNT |-> 0, attempts |-> 0]

Init ==
  /\ cfg \in [wf : Workflows, tier : Tiers]
  /\ runs = [id \in RunIds |-> NoRun]
  /\ nextId = 0
  /\ s3 = [versions |-> {}, latest |-> 0]
  /\ lifecycle \in [Targets -> {"InService", "Terminated"}]
  /\ cfg.wf # "asg" =>
       lifecycle = [t \in Targets |-> IF t = Instance THEN "InService" ELSE "Terminated"]
  /\ live = [t \in Targets |-> 0]
  /\ backups = [t \in Targets |-> <<>>]
  /\ scaleEvents = 0
  /\ store = NoStore
  /\ manual = NoManual
  /\ conn = NoConn
  /\ host = NoHost
  /\ lam = NoLambda
  /\ api = NoApi

\* ------------------------------------------------------------- triggers
\* workflow_run (completed) of the CI pipeline, or workflow_dispatch.
Trigger(e) ==
  /\ nextId < MaxRuns
  /\ LET id == nextId + 1
         blockers == {j \in RunIds : runs[j].status = "running"
                                     /\ ConcurrencyGroup(j) = ConcurrencyGroup(id)}
         waiting == {j \in RunIds : runs[j].status = "pending"
                                    /\ ConcurrencyGroup(j) = ConcurrencyGroup(id)}
     IN \E ts \in TestsBehind(e) :
        /\ nextId' = id
        /\ runs' =
             IF blockers = {}
             THEN [runs EXCEPT ![id] = Start(e, ts)]
             ELSE IF CancelInProgress
             THEN [j \in RunIds |->
                     IF j = id THEN Start(e, ts)
                     ELSE IF j \in blockers
                     THEN [NoRun EXCEPT !.status = "cancelled", !.event = runs[j].event]
                     ELSE runs[j]]
             ELSE [j \in RunIds |->
                     IF j = id
                     THEN [NoRun EXCEPT !.status = "pending", !.event = e,
                                        !.tests = IF Gate(e) THEN ts ELSE "none"]
                     ELSE IF j \in waiting
                     THEN [NoRun EXCEPT !.status = "cancelled", !.event = runs[j].event]
                     ELSE runs[j]]
  /\ UNCHANGED <<aux, store, cfg, s3, lifecycle, live, backups, scaleEvents>>

\* The job of a run ends; the group is released to the pending run.
Complete(id) ==
  /\ runs[id].status = "running"
  /\ runs[id].pc = "done"
  /\ LET waiting == {j \in RunIds : runs[j].status = "pending"
                                    /\ ConcurrencyGroup(j) = ConcurrencyGroup(id)}
     IN runs' = [j \in RunIds |->
                   IF j = id
                   THEN [NoRun EXCEPT !.status = "completed",
                                      !.verdict = Verdict(runs[id])]
                   ELSE IF j \in waiting THEN Start(runs[j].event, runs[j].tests)
                   ELSE runs[j]]
  /\ UNCHANGED <<aux, store, cfg, nextId, s3, lifecycle, live, backups, scaleEvents>>

At(id, step) == runs[id].status = "running" /\ runs[id].pc = step

\* ------------------------------------------------------- steps of a run
\* Download artifact / checkout / build / configure credentials.
Prepare(id) ==
  /\ At(id, "prepare")
  /\ \E ok \in BOOLEAN :
       runs' = [runs EXCEPT ![id] =
                  IF ok THEN Advance(@, "prepare")
                  ELSE Advance(Fail(@, "prepare"), "prepare")]
  /\ UNCHANGED <<aux, store, cfg, nextId, s3, lifecycle, live, backups, scaleEvents>>

PublishOutcomes ==
  IF cfg.wf = "asg" THEN {"ok", "fail_versioned", "fail_latest"}
  ELSE {"ok", "fail_versioned"}

\* Upload build to S3: TIMESTAMP key, then (asg) the latest/ key.
Publish(id) ==
  /\ At(id, "publish")
  /\ \E out \in PublishOutcomes :
       /\ s3' = [versions |-> IF out = "fail_versioned" THEN s3.versions
                              ELSE s3.versions \cup {id},
                 latest |-> IF out = "ok" /\ cfg.wf = "asg" THEN id ELSE s3.latest]
       /\ runs' = [runs EXCEPT ![id] =
                     IF out = "ok"
                     THEN Advance([@ EXCEPT !.version = id], "publish")
                     ELSE Advance(Fail(@, "publish"), "publish")]
  /\ UNCHANGED <<aux, store, cfg, nextId, lifecycle, live, backups, scaleEvents>>

\* Get ASG Instance IDs (asg only).
Resolve(id) ==
  /\ At(id, "resolve")
  /\ \E ok \in BOOLEAN :
       runs' = [runs EXCEPT ![id] =
                  IF ok
                  THEN LET found == {t \in Targets : lifecycle[t] = "InService"}
                       IN Advance([@ EXCEPT !.resolved = TRUE, !.ids = found,
                                            !.count = Cardinality(found)], "resolve")
                  ELSE Advance(Fail(@, "resolve"), "resolve")]
  /\ UNCHANGED <<aux, store, cfg, nextId, s3, lifecycle, live, backups, scaleEvents>>

\* What the remote `cp -r <live> <live>.backup.$(date) || echo ...` can end as.
BackupOutcomes(state) ==
  IF state = 0 THEN {"nothing", "ssm_failed"}
  ELSE {"created", "cp_failed", "ssm_failed"}

\* Does the backup step go on after the backup command ended as `out`?
BackupStepPasses(out) ==
  IF cfg.wf = "guide" THEN TRUE          \* aws ssm wait ... || true
  ELSE out # "ssm_failed"                \* aws ssm wait ... (bash -e)

\* Backup current deployment via SSM (guide, design).
Backup(id) ==
  /\ At(id, "backup")
  /\ \E out \in BackupOutcomes(live[Instance]) :
       /\ backups' = IF out = "created"
                     THEN [backups EXCEPT ![Instance] = <<live[Instance]>> \o @]
                     ELSE backups
       /\ runs' = [runs EXCEPT ![id] =
                     LET r == [@ EXCEPT !.backup[Instance] = out]
                     IN IF BackupStepPasses(out) THEN Advance(r, "backup")
                        ELSE Advance(Fail(r, "backup"), "backup")]
  /\ UNCHANGED <<aux, store, cfg, nextId, s3, lifecycle, live, scaleEvents>>

\* aws ssm send-command --targets Key=tag:aws:autoscaling:groupName,...
SsmTargetsByTag == {t \in Targets : lifecycle[t] \in {"InService", "Pending"}}

DeployTargets == IF cfg.wf = "asg" THEN SsmTargetsByTag ELSE {Instance}

\* Deploy step, first half: aws ssm send-command.
DeployDispatch(id) ==
  /\ At(id, "deploy")
  /\ \E sent \in BOOLEAN :
       runs' = [runs EXCEPT ![id] =
                  IF sent
                  THEN [@ EXCEPT !.pc = "poll", !.i = 0,
                                 !.dispatched = DeployTargets,
                                 !.cmd = [t \in Targets |->
                                            IF t \in DeployTargets
                                            THEN IF cfg.wf = "asg" THEN "Unlisted"
                                                 ELSE "Pending"
                                            ELSE "None"]]
                  ELSE Advance(Fail(@, "deploy"), "deploy")]
  /\ UNCHANGED <<aux, store, cfg, nextId, s3, lifecycle, live, backups, scaleEvents>>

Statuses ==
  {"None", "Unlisted", "Pending", "InProgress",
   "Success", "Failed", "Cancelled", "TimedOut"}
BadStatuses == {"Failed", "Cancelled", "TimedOut"}
WaitingStatuses == {"Pending", "InProgress"}

\* SSM moves an invocation forward only; a terminal status is final.
StatusSucc(st) ==
  CASE st = "Unlisted" -> Statuses \ {"None"}
    [] st = "Pending" -> Statuses \ {"None", "Unlisted"}
    [] st = "InProgress" -> Statuses \ {"None", "Unlisted", "Pending"}
    [] OTHER -> {st}

\* The content the deploy command set copies to the target.
Artifact(r) == IF cfg.wf = "asg" THEN s3.latest ELSE r.version

\* The live state of the targets after the invocation moved from old to new;
\* a command that ended badly leaves the target untouched or half overwritten.
LiveAfter(r, new, brk) ==
  [t \in Targets |->
     IF new[t] = r.cmd[t] THEN live[t]
     ELSE IF new[t] = "Success" THEN Artifact(r)
     ELSE IF new[t] \in BadStatuses /\ t \in brk THEN Broken
     ELSE live[t]]

\* for i in {1..N}
PollBudget ==
  CASE cfg.wf = "asg" /\ cfg.tier = "frontend" -> FrontendAsgAttempts
    [] cfg.wf = "asg" /\ cfg.tier = "backend" -> BackendAsgAttempts
    [] cfg.wf = "guide" /\ cfg.tier = "frontend" -> FrontendGuideAttempts
    [] cfg.wf = "guide" /\ cfg.tier = "backend" -> BackendGuideAttempts
    [] OTHER -> BackendDesignAttempts

\* The statuses on which the single-instance loop runs `exit 1`.
ExitStatuses ==
  IF cfg.wf = "guide" /\ cfg.tier = "backend"
  THEN {"Failed", "Cancelled", "TimedOut"}
  ELSE {"Failed", "Cancelled"}

\* One pass of the loop body: "fail" (exit 1), "break" or "sleep".
LoopBody(r, new) ==
  IF cfg.wf = "asg"
  THEN LET PENDING == Cardinality({t \in Targets : new[t] \in WaitingStatuses})
           FAILED == Cardinality({t \in Targets : new[t] \in BadStatuses})
       IN IF FAILED > 0 THEN "fail"
          ELSE IF PENDING = 0 THEN "break"
          ELSE "sleep"
  ELSE LET STATUS == new[Instance]
       IN IF STATUS = "Success" THEN "break"
          ELSE IF STATUS \in ExitStatuses THEN "fail"
          ELSE "sleep"

UsesWaiter == cfg.wf = "design" /\ cfg.tier = "frontend"

\* Deploy step, second half: one status check of the polling loop.
Poll(id) ==
  /\ At(id, "poll")
  /\ ~UsesWaiter
  /\ runs[id].i < PollBudget
  /\ \E new \in [Targets -> Statuses], brk \in SUBSET runs[id].dispatched :
       /\ \A t \in Targets : new[t] \in StatusSucc(runs[id].cmd[t])
       /\ \A t \in brk : new[t] \in BadStatuses /\ new[t] # runs[id].cmd[t]
       /\ live' = LiveAfter(runs[id], new, brk)
       /\ runs' = [runs EXCEPT ![id] =
            LET r == [@ EXCEPT !.cmd = new, !.i = @ + 1,
                               !.sawBad = @ \/ \E t \in Targets : new[t] \in BadStatuses]
                body == LoopBody(r, new)
                out == [r EXCEPT !.i = 0, !.cmd = NoRun.cmd,
                                 !.allSucceeded =
                                   \A t \in r.dispatched : new[t] = "Success"]
            IN IF body = "fail" THEN Advance(Fail(out, "deploy"), "deploy")
               ELSE IF body = "break" THEN Advance(out, "deploy")
               ELSE IF r.i < PollBudget THEN r
               ELSE Advance([out EXCEPT !.exhausted =
                               \E t \in Targets : new[t] \in WaitingStatuses],
                            "deploy")]
  /\ UNCHANGED <<aux, store, cfg, nextId, s3, lifecycle, backups, scaleEvents>>

\* Deploy step, second half (design, frontend): aws ssm wait command-executed,
\* then the check of get-command-invocation's Status.
PollWaiter(id) ==
  /\ At(id, "poll")
  /\ UsesWaiter
  /\ \E final \in {"Success", "Failed", "Cancelled", "TimedOut", "InProgress"},
        brk \in SUBSET {Instance} :
       LET new == [runs[id].cmd EXCEPT ![Instance] = final]
       IN /\ \A t \in brk : final \in BadStatuses
          /\ live' = LiveAfter(runs[id], new, brk)
          /\ runs' = [runs EXCEPT ![id] =
               LET r == [@ EXCEPT !.allSucceeded = final = "Success",
                                  !.sawBad = final \in BadStatuses,
                                  !.exhausted = final \in WaitingStatuses]
               IN IF final = "Success" THEN Advance(r, "deploy")
                  ELSE Advance(Fail(r, "deploy"), "deploy")]
  /\ UNCHANGED <<aux, store, cfg, nextId, s3, lifecycle, backups, scaleEvents>>

\* A health step that exits 1 whatever the probe returned.
HealthStepNeverPasses(res) == FALSE

\* Does the health step pass when the probe command ended as `res`?
HealthStepPasses(res) ==
  IF cfg.wf = "asg" THEN TRUE            \* the command is sent and never awaited
  ELSE res = "passed"                    \* aws ssm wait ... || { exit 1 }

ProbeTargets(r) == IF cfg.wf = "asg" THEN r.ids ELSE {Instance}

\* Health check via SSM on FIRST_INSTANCE / the instance.
Health(id) ==
  /\ At(id, "health")
  /\ \E sent \in BOOLEAN, res \in {"passed", "failed"}, t \in ProbeTargets(runs[id]) :
       runs' = [runs EXCEPT ![id] =
                  IF ~sent THEN Advance(Fail(@, "health"), "health")
                  ELSE LET r == [@ EXCEPT !.probe = res, !.probeTarget = t]
                       IN IF HealthStepPasses(res) THEN Advance(r, "health")
                          ELSE Advance(Fail(r, "health"), "health")]
  /\ UNCHANGED <<aux, store, cfg, nextId, s3, lifecycle, live, backups, scaleEvents>>

\* Deployment summary / Notify success (if: success()).
Summary(id) ==
  /\ At(id, "summary")
  /\ runs' = [runs EXCEPT ![id] = Advance([@ EXCEPT !.summary = TRUE], "summary")]
  /\ UNCHANGED <<aux, store, cfg, nextId, s3, lifecycle, live, backups, scaleEvents>>

\* The messages about its outcome a run has written: the success summary
\* (if: success()) and the closing line of the rollback step (if: failure()).
Notifications(r) ==
  (IF r.summary THEN 1 ELSE 0) + (IF r.rollbackReported THEN 1 ELSE 0)

\* What the remote restore command set can end as, given the target's backups.
RestoreOutcomes(bs) ==
  IF bs = <<>> THEN {"send_failed", "ssm_failed", "no_backup"}
  ELSE {"send_failed", "ssm_failed", "restored"}

\* Does the rollback step print its closing message after outcome `out`?
RollbackReports(out) ==
  IF cfg.wf = "guide" THEN out # "send_failed"        \* wait ... || true
  ELSE out \in {"restored", "no_backup"}              \* wait ... (bash -e)

\* Rollback on failure (if: failure()) (guide, design).
Rollback(id) ==
  /\ At(id, "rollback")
  /\ \E out \in RestoreOutcomes(backups[Instance]), brk \in BOOLEAN :
       /\ brk => out = "ssm_failed"
       /\ live' = [live EXCEPT ![Instance] =
                     IF out = "restored" THEN Head(backups[Instance])
                     ELSE IF brk THEN Broken
                     ELSE @]
       /\ runs' = [runs EXCEPT ![id] =
                     Advance([@ EXCEPT !.restore = out,
                                       !.restoreSent = {Instance},
                                       !.rollbackReported = RollbackReports(out)],
                             "rollback")]
  /\ UNCHANGED <<aux, store, cfg, nextId, s3, lifecycle, backups, scaleEvents>>

\* ------------------------------------------- the fleet, out of band (asg)
\* Launch template UserData: a new instance syncs from the latest/ key.
ScaleOut(t) ==
  /\ scaleEvents < MaxScaleEvents
  /\ lifecycle[t] = "Terminated"
  /\ lifecycle' = [lifecycle EXCEPT ![t] = "Pending"]
  /\ live' = [live EXCEPT ![t] = s3.latest]
  /\ scaleEvents' = scaleEvents + 1
  /\ UNCHANGED <<aux, store, cfg, runs, nextId, s3, backups>>

BecomeInService(t) ==
  /\ lifecycle[t] = "Pending"
  /\ lifecycle' = [lifecycle EXCEPT ![t] = "InService"]
  /\ UNCHANGED <<aux, store, cfg, runs, nextId, s3, live, backups, scaleEvents>>

ScaleIn(t) ==
  /\ scaleEvents < MaxScaleEvents
  /\ lifecycle[t] \in {"InService", "Pending"}
  /\ lifecycle' = [lifecycle EXCEPT ![t] = "Terminated"]
  /\ live' = [live EXCEPT ![t] = 0]
  /\ scaleEvents' = scaleEvents + 1
  /\ UNCHANGED <<aux, store, cfg, runs, nextId, s3, backups>>

Next ==
  \/ \E e \in Events : Trigger(e)
  \/ \E id \in RunIds : Complete(id)
  \/ \E id \in RunIds : Prepare(id)
  \/ \E id \in RunIds : Publish(id)
  \/ \E id \in RunIds : Resolve(id)
  \/ \E id \in RunIds : Backup(id)
  \/ \E id \in RunIds : DeployDispatch(id)
  \/ \E id \in RunIds : Poll(id)
  \/ \E id \in RunIds : PollWaiter(id)
  \/ \E id \in RunIds : Health(id)
  \/ \E id \in RunIds : Summary(id)
  \/ \E id \in RunIds : Rollback(id)

\* The workflows against a fleet that changes only between behaviours.
Spec == Init /\ [][Next]_vars

\* The runner executes the steps of a job one after the other, and every step
\* ends (its commands carry timeouts): some enabled step is always taken.
SpecLive == Spec /\ WF_vars(Next)

\* One run of the asg workflows against a fleet that scales under it.
FleetRun(id) ==
  \/ Prepare(id) \/ Publish(id) \/ Resolve(id) \/ DeployDispatch(id)
  \/ Poll(id) \/ Health(id) \/ Summary(id) \/ Complete(id)

FleetInit == Init /\ cfg.wf = "asg"

FleetNext ==
  \/ \E e \in Events : Trigger(e) /\ nextId = 0
  \/ \E id \in RunIds : FleetRun(id)
  \/ \E t \in Targets : ScaleOut(t)
  \/ \E t \in Targets : BecomeInService(t)
  \/ \E t \in Targets : ScaleIn(t)

SpecFleet == FleetInit /\ [][FleetNext]_vars

\* -------------------------------------------- publish and fetch, by file
\* Upload build to S3 (asg): the TIMESTAMP key, a fresh prefix, is written
\* first, then the latest/ key, in one `run:` script under bash -e.
PublishFiles(build) ==
  /\ \E out \in PublishOutcomes, part \in WrittenBeforeError(build) :
       store' =
         [latest |-> IF out = "ok" THEN S3Sync(build, store.latest)
                     ELSE IF out = "fail_latest"
                     THEN S3Sync(Restrict(build, part), store.latest)
                     ELSE store.latest,
          version |-> IF out = "fail_versioned"
                      THEN S3Sync(Restrict(build, part), NoFiles)
                      ELSE S3Sync(build, NoFiles),
          build |-> build, before |-> store.latest, outcome |-> out,
          fetched |-> NoFiles, didFetch |-> FALSE]
  /\ UNCHANGED <<aux, cfg, runs, nextId, s3, lifecycle, live, backups, scaleEvents>>

\* aws s3 sync s3://.../latest/ /tmp/frontend-build/ (a directory the deploy
\* commands remove afterwards) / aws s3 cp .../latest/backend.zip /tmp/backend.zip
FetchCurrent ==
  /\ store.outcome # "none"
  /\ ~store.didFetch
  /\ store' = [store EXCEPT !.fetched = S3Sync(store.latest, NoFiles),
                            !.didFetch = TRUE]
  /\ UNCHANGED <<aux, cfg, runs, nextId, s3, lifecycle, live, backups, scaleEvents>>

StoreInit ==
  /\ Init
  /\ cfg.wf = "asg"
  /\ lifecycle = [t \in Targets |-> "InService"]

StoreNext ==
  \/ \E build \in Builds : PublishFiles(build)
  \/ FetchCurrent

\* The latest/ key of the asg workflows under a sequence of uploads.
SpecStore == StoreInit /\ [][StoreNext]_vars
\* ----------------------------------------------------------- properties
Done(id) == At(id, "done")

BackupFailed(r) == \E t \in Targets : r.backup[t] \in {"cp_failed", "ssm_failed"}

\* C1: every target the deploy command set is dispatched to has, in the same
\* run, a backup that was created or confirmed as "nothing to back up" before
\* the dispatch.
C1_BackupBeforeDeploy ==
  \A id \in RunIds : \A t \in runs[id].dispatched :
    runs[id].backup[t] \in {"created", "nothing"}

\* C2: a run in which some poll showed a target Failed, Cancelled or TimedOut
\* never produces the success summary and never ends with verdict success.
C2_BadStatusNeverSuccess ==
  \A id \in RunIds :
    runs[id].sawBad =>
      /\ ~runs[id].summary
      /\ Done(id) => Verdict(runs[id]) # "success"

\* C3: when a run ends rolled back (its restore command set ran to its end),
\* every target it deployed to has the live state it had before the run.
C3_RollbackRestoresPreRun ==
  \A id \in RunIds :
    (/\ Done(id)
     /\ Verdict(runs[id]) = "rolled_back"
     /\ runs[id].restore \in {"restored", "no_backup"}) =>
      \A t \in runs[id].dispatched : live[t] = runs[id].preRun[t]

\* C4: when the deploy or the health step of a run fails after the deploy
\* command set reached a target, restore is invoked on every target that has a
\* backup before the run ends, and the run ends rolled_back when no restore
\* failed.
C4_FailureRollsBack ==
  \A id \in RunIds :
    (/\ Done(id)
     /\ runs[id].failedStage \in {"deploy", "health"}
     /\ runs[id].dispatched # {}) =>
      /\ \A t \in Targets : backups[t] # <<>> => t \in runs[id].restoreSent
      /\ runs[id].restore \in {"none", "restored"} =>
           Verdict(runs[id]) = "rolled_back"

\* C5: at most one run of the group is executing at any instant.
C5_SingleFlight ==
  Cardinality({id \in RunIds : runs[id].status = "running"}) <= 1

\* C5 witness: a second trigger arrived while a run is polling its deploy
\* command, and waits.
C5_Witness ==
  \E a, b \in RunIds :
    /\ At(a, "poll")
    /\ runs[b].status = "pending"

\* C6: the latest/ key holds a run's version only after every targeted
\* instance reported Success for the run's deploy command, and a run that does
\* not end in success leaves the key as it found it.
C6_PointerAfterFleetSuccess ==
  \A id \in RunIds :
    runs[id].status = "running" =>
      /\ s3.latest = id => runs[id].allSucceeded
      /\ (Done(id) /\ Verdict(runs[id]) # "success") =>
           s3.latest = runs[id].latestBefore

\* C7: a run whose polling loop used up its attempts with a target still
\* Pending or InProgress does not go on to the health check and does not end
\* with verdict success.
C7_ExhaustedBudgetFails ==
  \A id \in RunIds :
    runs[id].exhausted =>
      /\ runs[id].pc \notin {"health", "summary"}
      /\ runs[id].probe = "none"
      /\ ~runs[id].summary
      /\ Done(id) => Verdict(runs[id]) # "success"

\* C8: a run whose health probe failed never ends with verdict success, and
\* the rollback is triggered.
C8_FailedProbeRollsBack ==
  \A id \in RunIds :
    (Done(id) /\ runs[id].probe = "failed") =>
      /\ Verdict(runs[id]) # "success"
      /\ runs[id].restoreSent # {}

\* C9: a run in which the backup of a target failed dispatches the deploy
\* command set to no target, ends with verdict failed and leaves every live
\* state as it was.
C9_BackupFailureAborts ==
  \A id \in RunIds :
    BackupFailed(runs[id]) =>
      /\ runs[id].dispatched = {}
      /\ Done(id) => /\ Verdict(runs[id]) = "failed"
                     /\ live = runs[id].preRun

\* C10: a run whose restore failed, or found no backup, ends with verdict
\* failed and is never reported as rolled back.
C10_RestoreFailureEscalates ==
  \A id \in RunIds :
    (Done(id) /\ runs[id].restore \in {"no_backup", "ssm_failed", "send_failed"}) =>
      Verdict(runs[id]) = "failed"

EmptyFleet(r) == r.resolved /\ r.count = 0

\* C11 (as stated): a run whose instance query found no InService instance
\* ends with a verdict of its own, neither success nor failed.
C11_EmptyFleetNoOp ==
  \A id \in RunIds :
    (Done(id) /\ EmptyFleet(runs[id])) =>
      Verdict(runs[id]) \notin {"success", "failed"}

\* C11 (amended): a run whose instance query found no InService instance
\* sends no backup, deploy or health command, and ends with the success
\* summary and the job conclusion success.
C11_EmptyFleetSkipsDeploy ==
  \A id \in RunIds :
    EmptyFleet(runs[id]) =>
      /\ runs[id].pc \notin {"backup", "deploy", "poll", "health"}
      /\ runs[id].dispatched = {}
      /\ runs[id].probe = "none"
      /\ \A t \in Targets : runs[id].backup[t] = "none"
      /\ Done(id) => (runs[id].summary /\ Verdict(runs[id]) = "success")

\* C11 witness: a run on an empty fleet has ended.
C11_Witness ==
  \E id \in RunIds : Done(id) /\ EmptyFleet(runs[id]) /\ runs[id].dispatched = {}

\* C12: a run on an empty fleet, the first or a later one, leaves every
\* target's live state and the latest/ key as it found them.
C12_EmptyRunsChangeNothing ==
  \A id \in RunIds :
    (Done(id) /\ EmptyFleet(runs[id])) =>
      /\ live = runs[id].preRun
      /\ s3.latest = runs[id].latestBefore

\* C13: a run is at the health check, or has sent the probe, only when every
\* instance its deploy command was sent to reported Success.
C13_VerifyOnlyAfterAllSucceeded ==
  \A id \in RunIds :
    (At(id, "health") \/ runs[id].probe # "none") => runs[id].allSucceeded

\* C14: whenever no run is executing, all InService instances of the group,
\* those launched from the latest/ key included, hold one and the same version.
C14_NoMixedFleet ==
  (\A id \in RunIds : runs[id].status # "running") =>
    \A t, u \in Targets :
      (lifecycle[t] = "InService" /\ lifecycle[u] = "InService") => live[t] = live[u]

\* C15: a trigger that arrives while a run of the group is executing leaves
\* that run as it is and starts no second run; an executing run is never
\* cancelled and ends only after its last step.
C15_ActiveRunNotCancelled ==
  [][\A id \in RunIds :
       runs[id].status = "running" =>
         /\ runs'[id].status \in {"running", "completed"}
         /\ runs'[id].status = "completed" => runs[id].pc = "done"
         /\ nextId' # nextId =>
              /\ runs'[id] = runs[id]
              /\ \A j \in RunIds \ {id} : runs'[j].status # "running"]_vars

\* C15 witness: the executing run has gone through all its steps while the
\* trigger that arrived during it is still waiting.
C15_Witness ==
  \E a, b \in RunIds : Done(a) /\ runs[b].status = "pending"

\* C16: a run started by the completion of a CI Pipeline run executes its
\* steps only when that CI run concluded success and its test step did not
\* fail.
C16_CiGate ==
  \A id \in RunIds :
    (runs[id].status = "running" /\ runs[id].event # "dispatch") =>
      /\ runs[id].event = "ci_success"
      /\ runs[id].tests # "failed"

AllWentWell(r) ==
  /\ r.status = "running"
  /\ r.dispatched # {}
  /\ ~BackupFailed(r)
  /\ r.allSucceeded
  /\ r.probe = "passed"

C18_OneNotification ==
  \A id \in RunIds : Done(id) => Notifications(runs[id]) = 1

\* C19: after an upload that succeeded, a download of the latest/ key gives
\* exactly the uploaded build: the same files with the same content, and no
\* file of an earlier upload.
C19_RoundTrip ==
  (store.outcome = "ok" /\ store.didFetch) => store.fetched = store.build

\* C20: when the upload to the TIMESTAMP key succeeded and the upload to the
\* latest/ key ended in an error, the TIMESTAMP key holds the whole build and
\* the latest/ key holds what it held before.
C20_CurrentKeptOnFailure ==
  store.outcome = "fail_latest" =>
    /\ store.version = store.build
    /\ store.latest = store.before

\* C21: a run whose first failing step comes before the deploy step (prepare,
\* publish, resolve or backup) dispatches neither the deploy command set nor a
\* restore command to any target.
C21_EarlyFailureNoFleetMutation ==
  \A id \in RunIds :
    runs[id].failedStage \in {"prepare", "publish", "resolve", "backup"} =>
      /\ runs[id].dispatched = {}
      /\ runs[id].restore \in {"none", "send_failed"}

\* The place of a step in the job; the polling loop belongs to the deploy step.
StageRank(pc) ==
  CASE pc = "prepare" -> 1
    [] pc = "publish" -> 2
    [] pc = "resolve" -> 3
    [] pc = "backup" -> 4
    [] pc = "deploy" -> 5
    [] pc = "poll" -> 6
    [] pc = "health" -> 7
    [] pc = "summary" -> 8
    [] pc = "rollback" -> 9
    [] OTHER -> 10

\* C22: an executing run never goes back to a stage (every step moves it to a
\* later stage, or is one more attempt of its polling loop), a polling loop
\* never makes more attempts than its fixed number, and every executing run
\* ends with a verdict.
C22_BoundedRun ==
  /\ [][\A id \in RunIds :
         (runs[id].status = "running" /\ runs'[id].status = "running") =>
           \/ runs'[id] = runs[id]
           \/ StageRank(runs'[id].pc) > StageRank(runs[id].pc)
           \/ /\ runs[id].pc = "poll" /\ runs'[id].pc = "poll"
              /\ runs'[id].i = runs[id].i + 1]_vars
  /\ [](\A id \in RunIds : runs[id].i < PollBudget)
  /\ \A id \in RunIds :
       (runs[id].status = "running") ~>
         (runs[id].status = "completed" /\ runs[id].verdict # "none")

\* A run ended after its polling loop used every attempt on a target that
\* never left Pending / InProgress.
C22_Witness ==
  \E id \in RunIds :
    runs[id].status = "running" /\ runs[id].pc = "done" /\ runs[id].exhausted

\* C23: the targets a run dispatches the deploy command set to are exactly the
\* InService targets its instance query returned.
C23_DeployOnlyToResolved ==
  \A id \in RunIds :
    runs[id].dispatched # {} => runs[id].dispatched = runs[id].ids

\* C24: the target a run sends its health probe to is one of the targets that
\* received the deploy command set in that run.
C24_ProbeAmongDeployed ==
  \A id \in RunIds :
    runs[id].probe # "none" => runs[id].probeTarget \in runs[id].dispatched

\* ------------------------------------------ Manual Rollback (rollback.yml)
\* inputs.target.options
TargetOptions == {"frontend", "backend", "both"}

\* What an operator may type into inputs.confirm (type: string).
ConfirmInputs == {"ROLLBACK", "rollback", "Rollback", "ROLLBACK ", "", "yes"}

\* The form under which the expression language compares a string: it
\* ignores the case of letters (and nothing else).
Lower(str) ==
  CASE str \in {"ROLLBACK", "rollback", "Rollback"} -> "rollback"
    [] str = "ROLLBACK " -> "rollback "
    [] OTHER -> str

\* A comparison that tells upper case from lower case.
ExprNotEqualExact(a, b) == a # b

\* a != b in ${{ }}
ExprNotEqual(a, b) == Lower(a) # Lower(b)

\* a == b in ${{ }}
ExprEqual(a, b) == Lower(a) = Lower(b)

\* jobs.rollback-frontend.if / jobs.rollback-backend.if
Selected(tier, target) == ExprEqual(target, tier) \/ ExprEqual(target, "both")

\* workflow_dispatch of rollback.yml; bk: which instances hold a backup.
ManualDispatch(target, confirm, bk) ==
  /\ manual.status = "idle"
  /\ manual' = [NoManual EXCEPT !.status = "running", !.target = target,
                                !.confirm = confirm, !.hasBackup = bk]
  /\ UNCHANGED <<conn, host, lam, api, deployVars>>

\* Job validate: its one step runs `exit 1` when its `if:` is true.
Validate ==
  /\ manual.status = "running"
  /\ manual.validate = "none"
  /\ manual' = [manual EXCEPT !.validate =
                  IF ExprNotEqual(manual.confirm, "ROLLBACK")
                  THEN "failure" ELSE "success"]
  /\ UNCHANGED <<conn, host, lam, api, deployVars>>

\* What the steps of a rollback job can end as: the credentials step fails,
\* send-command fails, or the restore command set reaches the instance and
\* finds no backup (exit 1), breaks off, or runs to its end.
ManualOutcomes(has) ==
  {"creds_failed", "send_failed", "ssm_failed"}
    \cup (IF has THEN {"restored"} ELSE {"no_backup"})

\* Job rollback-<tier>: needs validate, and its own `if:` on the target.
RollbackTier(tier) ==
  /\ manual.validate # "none"
  /\ manual.job[tier] = "none"
  /\ \E out \in ManualOutcomes(manual.hasBackup[tier]) :
       manual' = [manual EXCEPT !.job[tier] =
                    IF manual.validate = "success" /\ Selected(tier, manual.target)
                    THEN out ELSE "skipped"]
  /\ UNCHANGED <<conn, host, lam, api, deployVars>>

\* The conclusion of a rollback job (bash -e: any failing command ends it).
JobConclusion(out) ==
  CASE out = "none" -> "none"
    [] out = "skipped" -> "skipped"
    [] out = "restored" -> "success"
    [] OTHER -> "failure"

\* The workflow run ends when its three jobs have concluded.
ManualComplete ==
  /\ manual.status = "running"
  /\ \A tier \in Tiers : manual.job[tier] # "none"
  /\ manual' = [manual EXCEPT !.status = "completed"]
  /\ UNCHANGED <<conn, host, lam, api, deployVars>>

\* ----------------------------------------------- Setup SSH with retry
MAX_RETRIES == 3

\* A test that never gives up.
NeverExhausted(count) == FALSE

\* [ $RETRY_COUNT -ge $MAX_RETRIES ]
RetryExhausted(count) == count >= MAX_RETRIES

\* One pass of `until ssh-keyscan ...; do ... done`: the scan, and on its
\* failure the loop body.
SshKeyscan(ok) ==
  /\ conn.state \in {"idle", "retrying"}
  /\ conn' =
       IF ok
       THEN [conn EXCEPT !.state = "connected", !.attempts = @ + 1]
       ELSE LET count == conn.RETRY_COUNT + 1
            IN [state |-> IF RetryExhausted(count) THEN "failed" ELSE "retrying",
                RETRY_COUNT |-> count,
                attempts |-> conn.attempts + 1]
  /\ UNCHANGED <<manual, host, lam, api, deployVars>>

OpsInit == Init /\ cfg = [wf |-> "guide", tier |-> "frontend"]

OpsNext ==
  \/ \E target \in TargetOptions, confirm \in ConfirmInputs,
        bk \in [Tiers -> BOOLEAN] : ManualDispatch(target, confirm, bk)
  \/ Validate
  \/ \E tier \in Tiers : RollbackTier(tier)
  \/ ManualComplete
  \/ \E ok \in BOOLEAN : SshKeyscan(ok)

\* The operator's workflows: a manual rollback, and a connection set up with
\* retries.
SpecOps == OpsInit /\ [][OpsNext]_vars

\* The restore command set of the tier's rollback job reached the instance.
RestoreDispatched(tier) == manual.job[tier] \in {"no_backup", "ssm_failed", "restored"}

\* C25: a failing dispatch is tried at most MAX_RETRIES times, after which the
\* step ends with an error; the step goes on only after an attempt that
\* succeeded, and a job whose send-command failed concludes failure.
C25_BoundedRetry ==
  /\ conn.attempts <= MAX_RETRIES
  /\ conn.state = "failed" =>
       conn.attempts = MAX_RETRIES /\ conn.RETRY_COUNT = MAX_RETRIES
  /\ (conn.attempts = MAX_RETRIES /\ conn.RETRY_COUNT = conn.attempts) =>
       conn.state = "failed"
  /\ conn.state = "connected" => conn.RETRY_COUNT < conn.attempts
  /\ \A tier \in Tiers :
       manual.job[tier] = "send_failed" =>
         JobConclusion(manual.job[tier]) = "failure"

\* Every attempt failed and the step gave up.
C25_Witness == conn.state = "failed" /\ conn.attempts = MAX_RETRIES

\* C26 (as stated): a restore command is dispatched to a tier only when the
\* confirm input is the string ROLLBACK and the tier is selected.
C26_ConfirmExact ==
  \A tier \in Tiers :
    RestoreDispatched(tier) =>
      /\ manual.confirm = "ROLLBACK"
      /\ manual.target \in {tier, "both"}

\* C26 (amended): a restore command is dispatched to a tier only when the
\* confirm input is ROLLBACK in some mix of upper and lower case and the tier
\* is selected; every such input passes the validation; and a rollback job is
\* skipped only when the validation failed or its tier is not selected.
C26_ConfirmIgnoringCase ==
  /\ \A tier \in Tiers :
       RestoreDispatched(tier) =>
         /\ manual.confirm \in {"ROLLBACK", "rollback", "Rollback"}
         /\ manual.target \in {tier, "both"}
  /\ manual.validate = "failure" =>
       manual.confirm \notin {"ROLLBACK", "rollback", "Rollback"}
  /\ \A tier \in Tiers :
       manual.job[tier] = "skipped" =>
         manual.validate = "failure" \/ manual.target \notin {tier, "both"}

\* A confirmed rollback of the frontend alone: restored there, and the
\* backend's job skipped.
C26_Witness ==
  /\ manual.status = "completed"
  /\ manual.target = "frontend"
  /\ manual.job["frontend"] = "restored"
  /\ manual.job["backend"] = "skipped"

\* --------------------------------- the backend package and the app directory
BackendNames == {"index.js", ".env"}

\* The backend/ directory of a checkout: the code, and maybe a .env file.
Checkouts ==
  UNION {[names -> Contents] : names \in {{"index.js"}, {"index.js", ".env"}}}

\* zip -r ../backend-$TIMESTAMP.zip . -x "node_modules/*" -x ".env"
Zip(files) == Restrict(files, DOMAIN files \ {".env"})

\* unzip -o <zip> -d <dir>: the entries of the archive overwrite the files of
\* the same name.
Unzip(zip, files) ==
  [n \in DOMAIN zip \cup DOMAIN files |-> IF n \in DOMAIN zip THEN zip[n] ELSE files[n]]

\* A line that copies nothing.
CopyNothing(from, to) == to

\* cp app/.env app.new/.env 2>/dev/null || echo No existing .env to preserve
CopyEnv(from, to) ==
  IF from.exists /\ to.exists /\ ".env" \in DOMAIN from.files
  THEN [to EXCEPT !.files =
          [n \in DOMAIN to.files \cup {".env"} |->
             IF n = ".env" THEN from.files[".env"] ELSE to.files[n]]]
  ELSE to

\* The content of the .env file of a directory, 0 if it has none.
EnvOf(dir) ==
  IF dir.exists /\ ".env" \in DOMAIN dir.files THEN dir.files[".env"] ELSE 0

\* The lines of the deploy command set, in order.
HostCommands ==
  <<"download", "stage", "unzip", "env", "npm", "retire", "promote",
    "restart", "cleanup">>

\* Package backend and upload to S3: the zip becomes backend/latest/backend.zip.
Package(checkout) ==
  /\ host.pc = "idle"
  /\ host' = [host EXCEPT !.pkg = [exists |-> TRUE, files |-> Zip(checkout)],
                          !.last = "none"]
  /\ UNCHANGED <<manual, conn, lam, api, deployVars>>

\* The operator writes the instance's .env (database credentials).
EditEnv(c) ==
  /\ host.pc = "idle"
  /\ host.app.exists
  /\ host' = [host EXCEPT !.app.files =
                 [n \in DOMAIN host.app.files \cup {".env"} |->
                    IF n = ".env" THEN c ELSE host.app.files[n]],
                          !.last = "none"]
  /\ UNCHANGED <<manual, conn, lam, api, deployVars>>

\* SSM starts the deploy command set on the instance.
HostDeploy ==
  /\ host.pc = "idle"
  /\ host' = [host EXCEPT !.pc = "download", !.envBefore = EnvOf(host.app),
                          !.last = "running"]
  /\ UNCHANGED <<manual, conn, lam, api, deployVars>>

\* The state of the instance after the line `cmd` ran; ok: did a line that can
\* fail for outside reasons succeed.  A failed line does not stop the script.
AfterCommand(h, cmd, ok) ==
  CASE cmd = "download" ->       \* aws s3 cp .../backend/latest/backend.zip /tmp/backend.zip
         IF ok /\ h.pkg.exists THEN [h EXCEPT !.zip = h.pkg] ELSE h
    [] cmd = "stage" ->          \* rm -rf app.new && mkdir -p app.new
         [h EXCEPT !.appNew = [exists |-> TRUE, files |-> NoFiles]]
    [] cmd = "unzip" ->          \* unzip -o /tmp/backend.zip -d app.new
         IF h.zip.exists
         THEN [h EXCEPT !.appNew.files = Unzip(h.zip.files, @)]
         ELSE h
    [] cmd = "env" ->
         [h EXCEPT !.appNew = CopyEnv(h.app, @)]
    [] cmd = "retire" ->         \* rm -rf ../app.old && mv ../app ../app.old || true
         IF h.app.exists
         THEN [h EXCEPT !.appOld = h.app, !.app = NoDir]
         ELSE [h EXCEPT !.appOld = NoDir]
    [] cmd = "promote" ->        \* mv ../app.new ../app
         IF h.app.exists THEN h
         ELSE [h EXCEPT !.app = h.appNew, !.appNew = NoDir]
    [] cmd = "cleanup" ->        \* rm -f /tmp/backend.zip
         [h EXCEPT !.zip = NoDir]
    [] OTHER -> h                \* npm ci, pm2 restart, pm2 save: no file of the app

\* The next line of the command set runs.
HostCommand ==
  /\ host.pc # "idle"
  /\ \E ok \in BOOLEAN :
       LET k == Pos(HostCommands, host.pc)
           h == AfterCommand(host, host.pc, ok)
       IN host' = IF k < Len(HostCommands)
                  THEN [h EXCEPT !.pc = HostCommands[k + 1]]
                  ELSE [h EXCEPT !.pc = "idle", !.last = "completed"]
  /\ UNCHANGED <<manual, conn, lam, api, deployVars>>

\* The command is cancelled or times out between two lines.
HostInterrupt ==
  /\ host.pc # "idle"
  /\ host' = [host EXCEPT !.pc = "idle", !.last = "interrupted"]
  /\ UNCHANGED <<manual, conn, lam, api, deployVars>>

HostInit ==
  /\ Init
  /\ cfg = [wf |-> "asg", tier |-> "backend"]
  /\ lifecycle = [t \in Targets |-> "InService"]

HostNext ==
  \/ \E checkout \in Checkouts : Package(checkout)
  \/ \E c \in Contents : EditEnv(c)
  \/ HostDeploy
  \/ HostCommand
  \/ HostInterrupt

\* Packages and deployments of the backend on one instance.
SpecHost == HostInit /\ [][HostNext]_vars

\* C27: after a deploy command set ran to its end on an instance whose app
\* directory held a .env file before it, the app directory holds a .env file
\* with the same content; and no package, uploaded or downloaded, holds .env.
C27_EnvPreserved ==
  /\ (host.last = "completed" /\ host.envBefore # 0) =>
       EnvOf(host.app) = host.envBefore
  /\ ".env" \notin DOMAIN host.pkg.files
  /\ ".env" \notin DOMAIN host.zip.files

\* A deployment replaced the code of an instance that had a .env file.
C27_Witness ==
  /\ host.last = "completed"
  /\ host.envBefore # 0
  /\ host.app.exists /\ host.appOld.exists
  /\ "index.js" \in DOMAIN host.app.files \cap DOMAIN host.appOld.files
  /\ host.app.files["index.js"] # host.appOld.files["index.js"]

\* ------------------------------------------------ RDS failover (Lambda)
\* The two versions of lambda_handler: "simple" and "route53".
Variants == {"simple", "route53"}

\* What an invocation can carry: an SNS record of an alarm state change, or an
\* event without 'Records' (a direct invocation).
LambdaEvents == {"ALARM", "OK", "INSUFFICIENT_DATA", "no_records"}

Invocations == 1..MaxInvocations

\* The function code is deployed.
LambdaDeploy(v) ==
  /\ lam.variant = "none"
  /\ lam' = [lam EXCEPT !.variant = v]
  /\ UNCHANGED <<manual, conn, host, api, deployVars>>

\* SNS (or an operator) invokes the function; invocations run side by side.
Invoke(e) ==
  /\ lam.variant # "none"
  /\ \E k \in Invocations :
       /\ lam.inv[k].pc = "none"
       /\ \A j \in 1..(k - 1) : lam.inv[j].pc # "none"
       /\ lam' = [lam EXCEPT !.inv[k] = [pc |-> "check", event |-> e]]
  /\ UNCHANGED <<manual, conn, host, api, deployVars>>

\* if 'Records' in event: ... if message.get('NewStateValue') != 'ALARM': return
HandlerCheck(k) ==
  /\ lam.inv[k].pc = "check"
  /\ lam' = [lam EXCEPT !.inv[k].pc =
                IF lam.inv[k].event # "no_records" /\ lam.inv[k].event # "ALARM"
                THEN "skipped" ELSE "describe"]
  /\ UNCHANGED <<manual, conn, host, api, deployVars>>

\* A notification as it is published: its kind and the state of the replica
\* at that moment.
Notice(k, kind) ==
  [inv |-> k, kind |-> kind,
   promoted |-> ~lam.replica.source /\ lam.replica.status = "available",
   multiAZ |-> lam.replica.multiAZ]

\* rds.describe_db_instances and the checks on its response.
HandlerDescribe(k) ==
  /\ lam.inv[k].pc = "describe"
  /\ \E ok \in BOOLEAN :
       lam' =
         IF ~ok THEN [lam EXCEPT !.inv[k].pc = "except"]
         ELSE IF lam.variant = "simple"
         THEN IF ~lam.replica.source
              THEN [lam EXCEPT !.inv[k].pc = "already",
                               !.sent = @ \cup {Notice(k, "already")}]
              ELSE [lam EXCEPT !.inv[k].pc = "promote"]
         ELSE IF lam.replica.status # "available"
              THEN [lam EXCEPT !.inv[k].pc = "except"]
              ELSE IF ~lam.replica.source
              THEN [lam EXCEPT !.inv[k].pc = "endpoint"]
              ELSE [lam EXCEPT !.inv[k].pc = "promote"]
  /\ UNCHANGED <<manual, conn, host, api, deployVars>>

\* rds.promote_read_replica: RDS starts the promotion of an available replica
\* and rejects the call in any other state.
HandlerPromote(k) ==
  /\ lam.inv[k].pc = "promote"
  /\ LET call == [inv |-> k, event |-> lam.inv[k].event,
                  source |-> lam.replica.source,
                  status |-> lam.replica.status]
         accepted == lam.replica.source /\ lam.replica.status = "available"
     IN lam' = [lam EXCEPT !.calls = @ \cup {call},
                           !.replica.status = IF accepted THEN "modifying" ELSE @,
                           !.inv[k].pc = IF accepted THEN "wait" ELSE "except"]
  /\ UNCHANGED <<manual, conn, host, api, deployVars>>

\* RDS finishes the promotion: the instance is a standalone primary.
PromotionCompletes ==
  /\ lam.replica.status = "modifying"
  /\ lam' = [lam EXCEPT !.replica.status = "available", !.replica.source = FALSE]
  /\ UNCHANGED <<manual, conn, host, api, deployVars>>

\* waiter.wait(db_instance_available): returns once the instance is
\* available; over its attempts it raises; past the function timeout the
\* invocation is ended from outside.
HandlerWait(k) ==
  /\ lam.inv[k].pc = "wait"
  /\ \E out \in {"returned", "raised", "killed"} :
       /\ out = "returned" => lam.replica.status = "available"
       /\ out # "returned" => lam.replica.status # "available"
       /\ lam' = [lam EXCEPT !.inv[k].pc =
                     CASE out = "returned" -> "endpoint"
                       [] out = "raised" -> "except"
                       [] OTHER -> "killed"]
  /\ UNCHANGED <<manual, conn, host, api, deployVars>>

\* describe_db_instances for the endpoint, then (route53, zone configured)
\* change_resource_record_sets.
HandlerEndpoint(k) ==
  /\ lam.inv[k].pc = "endpoint"
  /\ \E ok \in BOOLEAN, zone \in BOOLEAN :
       lam' = IF ~ok THEN [lam EXCEPT !.inv[k].pc = "except"]
              ELSE [lam EXCEPT !.inv[k].pc = "publish",
                               !.dns = @ \/ (lam.variant = "route53" /\ zone)]
  /\ UNCHANGED <<manual, conn, host, api, deployVars>>

\* sns.publish(Subject='RDS Failover Complete' ...) and return 200.
HandlerPublish(k) ==
  /\ lam.inv[k].pc = "publish"
  /\ lam' = [lam EXCEPT !.inv[k].pc = "returned",
                        !.sent = @ \cup {Notice(k, "success")}]
  /\ UNCHANGED <<manual, conn, host, api, deployVars>>

\* except Exception: sns.publish(Subject='RDS Failover FAILED' ...); raise
HandlerExcept(k) ==
  /\ lam.inv[k].pc = "except"
  /\ lam' = [lam EXCEPT !.inv[k].pc = "raised",
                        !.sent = @ \cup {Notice(k, "failed")}]
  /\ UNCHANGED <<manual, conn, host, api, deployVars>>

FailoverInit ==
  /\ Init
  /\ cfg = [wf |-> "asg", tier |-> "backend"]
  /\ lifecycle = [t \in Targets |-> "InService"]

FailoverNext ==
  \/ \E v \in Variants : LambdaDeploy(v)
  \/ \E e \in LambdaEvents : Invoke(e)
  \/ \E k \in Invocations : HandlerCheck(k)
  \/ \E k \in Invocations : HandlerDescribe(k)
  \/ \E k \in Invocations : HandlerPromote(k)
  \/ PromotionCompletes
  \/ \E k \in Invocations : HandlerWait(k)
  \/ \E k \in Invocations : HandlerEndpoint(k)
  \/ \E k \in Invocations : HandlerPublish(k)
  \/ \E k \in Invocations : HandlerExcept(k)

\* The failover function under any deliveries of alarm messages.
SpecFailover == FailoverInit /\ [][FailoverNext]_vars

\* C28: promote_read_replica is called only by an invocation whose event is in
\* state ALARM and while the replica has a replication source, and over all
\* invocations it is called at most once.
C28_PromoteOnce ==
  /\ \A c \in lam.calls : c.event = "ALARM" /\ c.source
  /\ Cardinality(lam.calls) <= 1

\* C29: a success notification is published only after the replica was
\* promoted to a standalone primary and Multi-AZ was enabled on it.
C29_SuccessAfterPromoteAndMultiAZ ==
  \A n \in lam.sent : n.kind = "success" => n.promoted /\ n.multiAZ

\* ------------------------------------------------ backend API (index.js)
\* app.get("/books"), app.post("/books"), app.delete("/books/:id"),
\* app.put("/books/:id")
Methods == {"GET", "POST", "DELETE", "PUT"}

BookIds == 1..MaxBooks
Slots == 1..MaxRequests

\* The row an INSERT creates (AUTO_INCREMENT over the ids the model has).
NewId(books) == Min(BookIds \ books)

\* What db.query passes to its callback as data when the statement succeeds.
QueryData(method, id, books) ==
  CASE method = "GET" -> <<"rows", books>>
    [] method = "POST" -> <<"insertId", NewId(books)>>
    [] OTHER -> <<"affectedRows", IF id \in books THEN 1 ELSE 0>>

\* The books table after the statement succeeded.
BooksAfter(method, id, books) ==
  CASE method = "POST" -> books \cup {NewId(books)}
    [] method = "DELETE" -> books \ {id}
    [] OTHER -> books

\* A callback that goes on to res.json(data) after it answered the error.
CallbackWithoutReturn(err, data) ==
  IF err
  THEN <<[status |-> 503, body |-> <<"error", "Database unavailable">>],
         [status |-> 200, body |-> data]>>
  ELSE <<[status |-> 200, body |-> data]>>

\* (err, data) => { if (err) { return res.status(503).json({...}); }
\*                  return res.json(data); }
\* The responses the callback sends, in order.
Callback(err, data) ==
  IF err
  THEN <<[status |-> 503, body |-> <<"error", "Database unavailable">>]>>
  ELSE <<[status |-> 200, body |-> data]>>

\* A request for /books arrives: the route's function runs and hands its
\* statement to the pool (db.query).
Request(k, method, id) ==
  /\ api.alive
  /\ api.req[k].phase = "none"
  /\ method \in {"DELETE", "PUT"} <=> id # 0
  /\ method = "POST" =>
       Cardinality(api.books)
         + Cardinality({j \in Slots : api.req[j].phase = "pending"
                                     /\ api.req[j].method = "POST"}) < MaxBooks
  /\ api' = [api EXCEPT !.req[k] =
                [NoRequest EXCEPT !.method = method, !.id = id, !.phase = "pending"]]
  /\ UNCHANGED <<manual, conn, host, lam, deployVars>>

\* The pool calls the callback of a statement: with an error when it could
\* not get a connection or the statement failed, with the data otherwise.  A
\* second send on the same response throws inside the callback, which ends
\* the process.
QueryCallback(k) ==
  /\ api.alive
  /\ api.req[k].phase = "pending"
  /\ \E err \in BOOLEAN :
       /\ api.db = "down" => err
       /\ LET r == api.req[k]
              data == IF err THEN <<>> ELSE QueryData(r.method, r.id, api.books)
              out == Callback(err, data)
          IN api' = [api EXCEPT
                       !.books = IF err THEN @ ELSE BooksAfter(r.method, r.id, @),
                       !.errors = @ \/ err,
                       !.alive = Len(out) = 1,
                       !.req[k] = [r EXCEPT !.phase = "responded", !.err = err,
                                            !.data = data, !.sent = out,
                                            !.afterError = api.errors]]
  /\ UNCHANGED <<manual, conn, host, lam, deployVars>>

\* The answered request is over; its slot is free again.
Close(k) ==
  /\ api.req[k].phase = "responded"
  /\ api' = [api EXCEPT !.req[k] = NoRequest]
  /\ UNCHANGED <<manual, conn, host, lam, deployVars>>

\* The database becomes unreachable (primary lost), or reachable again.
DbFlip ==
  /\ api' = [api EXCEPT !.db = IF @ = "up" THEN "down" ELSE "up"]
  /\ UNCHANGED <<manual, conn, host, lam, deployVars>>

ApiInit ==
  /\ Init
  /\ cfg = [wf |-> "asg", tier |-> "backend"]
  /\ lifecycle = [t \in Targets |-> "InService"]

ApiNext ==
  \/ \E k \in Slots, method \in Methods, id \in BookIds \cup {0} :
       Request(k, method, id)
  \/ \E k \in Slots : QueryCallback(k)
  \/ \E k \in Slots : Close(k)
  \/ DbFlip

\* The API process under requests and database outages.
SpecApi == ApiInit /\ [][ApiNext]_vars

\* C30: every answered /books request got exactly one response: status 503
\* with the error body when its query failed, the query's data otherwise;
\* the process stays up, so an unanswered request is still going to be
\* answered whatever errors came before.
C30_OneResponse ==
  /\ api.alive
  /\ \A k \in Slots :
       /\ api.req[k].phase = "responded" =>
            /\ Len(api.req[k].sent) = 1
            /\ api.req[k].err =>
                 /\ api.req[k].sent[1].status = 503
                 /\ api.req[k].sent[1].body[1] = "error"
            /\ ~api.req[k].err =>
                 /\ api.req[k].sent[1].status = 200
                 /\ api.req[k].sent[1].body = api.req[k].data
       /\ api.req[k].phase # "responded" => api.req[k].sent = <<>>
       /\ api.req[k].phase = "pending" => ENABLED QueryCallback(k)

\* A request answered with data after an earlier request had been answered
\* 503, next to a request that was just answered 503.
C30_Witness ==
  \E j, k \in Slots :
    /\ api.req[j].phase = "responded" /\ api.req[j].err
    /\ api.req[k].phase = "responded" /\ ~api.req[k].err
    /\ api.req[k].afterError
====
